---- MODULE Spec2Model ----
(***************************************************************************)
(* SOPAN (SOCKS proxy analyzer), main.go.                                  *)
(*                                                                         *)
(* A Go string is a sequence of one-character strings.  The module has     *)
(* three layers: the string functions (strings.*, net/url as parseProxy    *)
(* uses it, bufio.Scanner), the probe testProxy as an operator of the raw  *)
(* string and of what the network answers, and the goroutines of           *)
(* testProxies with main around them as a state machine.  The worker       *)
(* goroutines are anonymous and run the same function literal, so the      *)
(* state holds the bag of their local states.                              *)
(***************************************************************************)
EXTENDS Integers, Sequences, FiniteSets, Bags, TLC

(***************************************************************************)
(* Bounds of the model.                                                    *)
(***************************************************************************)
\* most lines of a proxy list file
MaxLines == 2
\* largest value of the -threads flag (twice the largest list, so that the
\* pool can be larger than the list)
MaxThreads == 2 * MaxLines
\* longest latency the clock reports, in ticks
MaxLatency == 1

(***************************************************************************)
(* Characters.                                                             *)
(***************************************************************************)
SP == " "
TAB == "\t"
LF == "\n"
CR == "\r"

Digits == {"0", "1", "2", "3", "4", "5", "6", "7", "8", "9"}
Letters == {"a", "b", "c", "d", "e", "f", "g", "h", "i", "j", "k", "l", "m",
            "n", "o", "p", "q", "r", "s", "t", "u", "v", "w", "x", "y", "z"}
HexDigits == Digits \cup {"a", "b", "c", "d", "e", "f"}

\* unicode.IsSpace, restricted to the characters of the model
IsSpace(c) == c \in {SP, TAB, LF, CR}

\* net/url stringContainsCTLByte: b < ' ' || b == 0x7f
IsCTL(c) == c \in {TAB, LF, CR}

(***************************************************************************)
(* package strings                                                         *)
(***************************************************************************)
HasPrefix(s, p) == Len(s) >= Len(p) /\ SubSeq(s, 1, Len(p)) = p

\* strings.Index for a one-character needle, 1-based; 0 when absent
Index(s, c) ==
    IF \E i \in 1..Len(s) : s[i] = c
    THEN CHOOSE i \in 1..Len(s) : s[i] = c /\ \A j \in 1..(i - 1) : s[j] # c
    ELSE 0

\* strings.LastIndex for a one-character needle, 1-based; 0 when absent
LastIndex(s, c) ==
    IF \E i \in 1..Len(s) : s[i] = c
    THEN CHOOSE i \in 1..Len(s) : s[i] = c /\ \A j \in (i + 1)..Len(s) : s[j] # c
    ELSE 0

\* s[i:] of Go with a 1-based i
From(s, i) == SubSeq(s, i, Len(s))

\* s[:i] of Go, the characters before the 1-based position i
Before(s, i) == SubSeq(s, 1, i - 1)

\* strings.TrimSpace
TrimSpace(s) ==
    IF \A i \in 1..Len(s) : IsSpace(s[i])
    THEN << >>
    ELSE LET first == CHOOSE i \in 1..Len(s) :
                          ~IsSpace(s[i]) /\ \A j \in 1..(i - 1) : IsSpace(s[j])
             last == CHOOSE i \in 1..Len(s) :
                          ~IsSpace(s[i]) /\ \A j \in (i + 1)..Len(s) : IsSpace(s[j])
         IN  SubSeq(s, first, last)

(***************************************************************************)
(* package net/url, as far as url.Parse, URL.Hostname and URL.Port decide  *)
(* parseProxy.  Strings of the model hold no '[' or ']', so the IPv6       *)
(* branches of parseHost and splitHostPort are left out.                   *)
(***************************************************************************)
\* shouldEscape(c, encodeHost) is false: the character may stand in a host
HostChar(c) ==
    \/ c \in Letters \cup Digits
    \/ c \in {"-", "_", ".", "~"}
    \/ c \in {"!", "$", "&", "'", "(", ")", "*", "+", ",", ";", "=", ":", "<", ">"}

\* validUserinfo: the characters a userinfo may hold
UserinfoChar(c) ==
    \/ c \in Letters \cup Digits
    \/ c \in {"-", ".", "_", ":", "~", "!", "$", "&", "'", "(", ")", "*", "+",
              ",", ";", "=", "%", "@"}

validUserinfo(s) == \A i \in 1..Len(s) : UserinfoChar(s[i])

\* validOptionalPort: empty, or ':' followed by digits only
validOptionalPort(port) ==
    \/ port = << >>
    \/ port[1] = ":" /\ \A i \in 2..Len(port) : port[i] \in Digits

\* unescape reports an EscapeError: a '%' not followed by two hex digits; in
\* a host, also an escape of an ASCII byte other than "%25"
EscapeError(s, inHost) ==
    \E i \in 1..Len(s) :
        /\ s[i] = "%"
        /\ \/ i + 2 > Len(s)
           \/ s[i + 1] \notin HexDigits
           \/ s[i + 2] \notin HexDigits
           \/ inHost /\ s[i + 1] \in {"0", "1", "2", "3", "4", "5", "6", "7"}
                     /\ SubSeq(s, i, i + 2) # <<"%", "2", "5">>

\* unescape reports an InvalidHostError: a character a host may not hold
InvalidHostError(s) == \E i \in 1..Len(s) : s[i] # "%" /\ ~HostChar(s[i])

\* unescape of a string without EscapeError: every escape %XY becomes one
\* character, written here as the one element "%XY"
RECURSIVE unescape(_)
unescape(s) ==
    IF s = << >> THEN << >>
    ELSE IF s[1] = "%" /\ Len(s) >= 3
         THEN <<"%" \o s[2] \o s[3]>> \o unescape(From(s, 4))
         ELSE <<s[1]>> \o unescape(Tail(s))

\* getScheme: (scheme, rest, err).  A scheme is a letter followed by letters,
\* digits, '+', '-', '.', up to the first ':'
RECURSIVE getSchemeFrom(_, _)
getSchemeFrom(s, i) ==
    IF i > Len(s) THEN [scheme |-> << >>, rest |-> s, err |-> ""]
    ELSE IF s[i] \in Letters THEN getSchemeFrom(s, i + 1)
    ELSE IF s[i] \in Digits \cup {"+", "-", "."}
         THEN IF i = 1 THEN [scheme |-> << >>, rest |-> s, err |-> ""]
              ELSE getSchemeFrom(s, i + 1)
    ELSE IF s[i] = ":"
         THEN IF i = 1
              THEN [scheme |-> << >>, rest |-> << >>, err |-> "missing protocol scheme"]
              ELSE [scheme |-> Before(s, i), rest |-> From(s, i + 1), err |-> ""]
    ELSE [scheme |-> << >>, rest |-> s, err |-> ""]

getScheme(s) == getSchemeFrom(s, 1)

NoUser == [set |-> FALSE, username |-> << >>, password |-> << >>]

\* parseHost: (host, err)
parseHost(host) ==
    LET i == LastIndex(host, ":")
    IN  IF i # 0 /\ ~validOptionalPort(From(host, i))
        THEN [host |-> << >>, err |-> "invalid port after host"]
        ELSE IF EscapeError(host, TRUE)
        THEN [host |-> << >>, err |-> "invalid URL escape"]
        ELSE IF InvalidHostError(host)
        THEN [host |-> << >>, err |-> "invalid character in host name"]
        ELSE [host |-> unescape(host), err |-> ""]

\* parseAuthority: (user, host, err) of [userinfo@]host
parseAuthority(authority) ==
    LET i == LastIndex(authority, "@")
        h == parseHost(From(authority, i + 1))
        userinfo == Before(authority, i)
        c == Index(userinfo, ":")
        username == IF c = 0 THEN userinfo ELSE Before(userinfo, c)
        password == IF c = 0 THEN << >> ELSE From(userinfo, c + 1)
    IN  IF h.err # ""
        THEN [user |-> NoUser, host |-> << >>, err |-> h.err]
        ELSE IF i = 0
        THEN [user |-> NoUser, host |-> h.host, err |-> ""]
        ELSE IF ~validUserinfo(userinfo)
        THEN [user |-> NoUser, host |-> << >>, err |-> "invalid userinfo"]
        ELSE IF EscapeError(username, FALSE) \/ EscapeError(password, FALSE)
        THEN [user |-> NoUser, host |-> << >>, err |-> "invalid URL escape"]
        ELSE [user |-> [set |-> TRUE, username |-> unescape(username),
                        password |-> unescape(password)],
              host |-> h.host, err |-> ""]

\* url.Parse: (User, Host, err); the fragment is cut off first, then the
\* scheme, then the query, then the authority up to the next '/', and the
\* path and the fragment are unescaped last
urlParse(rawURL) ==
    LET hash == Index(rawURL, "#")
        u == IF hash = 0 THEN rawURL ELSE Before(rawURL, hash)
        frag == IF hash = 0 THEN << >> ELSE From(rawURL, hash + 1)
        sch == getScheme(u)
        q == Index(sch.rest, "?")
        rest == IF q = 0 THEN sch.rest ELSE Before(sch.rest, q)
        hasAuthority == HasPrefix(rest, <<"/", "/">>)
        afterSlashes == From(rest, 3)
        slash == Index(afterSlashes, "/")
        authority == IF slash = 0 THEN afterSlashes ELSE Before(afterSlashes, slash)
        path == IF ~hasAuthority THEN rest
                ELSE IF slash = 0 THEN << >> ELSE From(afterSlashes, slash)
        auth == parseAuthority(authority)
        fail(msg) == [User |-> NoUser, Host |-> << >>, err |-> msg]
    IN  IF \E i \in 1..Len(rawURL) : IsCTL(rawURL[i])
        THEN fail("invalid control character in URL")
        ELSE IF sch.err # "" THEN fail(sch.err)
        ELSE IF ~HasPrefix(rest, <<"/">>) /\ sch.scheme # << >>
        THEN [User |-> NoUser, Host |-> << >>, err |-> ""]
        ELSE IF ~HasPrefix(rest, <<"/">>) /\ Index(rest, ":") # 0
                /\ Index(Before(rest, Index(rest, ":")), "/") = 0
        THEN fail("first path segment in URL cannot contain colon")
        ELSE IF hasAuthority /\ auth.err # "" THEN fail(auth.err)
        ELSE IF EscapeError(path, FALSE) \/ EscapeError(frag, FALSE)
        THEN fail("invalid URL escape")
        ELSE [User |-> IF hasAuthority THEN auth.user ELSE NoUser,
              Host |-> IF hasAuthority THEN auth.host ELSE << >>,
              err |-> ""]

\* splitHostPort: the host and the port of URL.Host
splitHostPort(hostPort) ==
    LET colon == LastIndex(hostPort, ":")
    IN  IF colon # 0 /\ validOptionalPort(From(hostPort, colon))
        THEN [host |-> Before(hostPort, colon), port |-> From(hostPort, colon + 1)]
        ELSE [host |-> hostPort, port |-> << >>]

\* URL.Hostname
Hostname(Host) == splitHostPort(Host).host

\* URL.Port
Port(Host) == splitHostPort(Host).port

(***************************************************************************)
(* parseProxy                                                              *)
(***************************************************************************)
Socks5Prefix == <<"s", "o", "c", "k", "s", "5", ":", "/", "/">>
Socks4Prefix == <<"s", "o", "c", "k", "s", "4", ":", "/", "/">>

NoInfo == [Host |-> << >>, Port |-> << >>, Username |-> << >>,
           Password |-> << >>, Raw |-> << >>]

\* line 146 with && for ||
missingHostAndPort(info) == info.Host = << >> /\ info.Port = << >>

\* line 146: info.Host == "" || info.Port == ""
missingHostOrPort(info) == info.Host = << >> \/ info.Port = << >>

\* parseProxy: (info, err); err is "" or the text after "invalid proxy
\* format: "
parseProxy(proxyStr0) ==
    LET proxyStr == IF ~HasPrefix(proxyStr0, Socks5Prefix)
                       /\ ~HasPrefix(proxyStr0, Socks4Prefix)
                    THEN Socks5Prefix \o proxyStr0
                    ELSE proxyStr0
        u == urlParse(proxyStr)
        info == [Host |-> Hostname(u.Host),
                 Port |-> Port(u.Host),
                 Username |-> IF u.User.set THEN u.User.username ELSE << >>,
                 Password |-> IF u.User.set THEN u.User.password ELSE << >>,
                 Raw |-> proxyStr]
    IN  IF u.err # ""
        THEN [ok |-> FALSE, info |-> NoInfo, err |-> u.err]
        ELSE IF missingHostOrPort(info)
        THEN [ok |-> FALSE, info |-> NoInfo, err |-> "missing host or port"]
        ELSE [ok |-> TRUE, info |-> info, err |-> ""]

(***************************************************************************)
(* loadProxiesFromFile.  A file is the sequence of its characters.         *)
(***************************************************************************)
\* bufio.ScanLines: a line without a trailing CR
dropCR(data) ==
    IF Len(data) > 0 /\ data[Len(data)] = CR THEN Before(data, Len(data)) ELSE data

\* bufio.Scanner with the default split function ScanLines: the lines of the
\* data, each ended by LF except possibly the last; an empty rest is no line
RECURSIVE ScanLines(_)
ScanLines(data) ==
    IF data = << >> THEN << >>
    ELSE LET i == Index(data, LF)
         IN  IF i = 0 THEN <<dropCR(data)>>
             ELSE <<dropCR(Before(data, i))>> \o ScanLines(From(data, i + 1))

\* the loop of loadProxiesFromFile over the scanned lines
RECURSIVE keepLines(_)
keepLines(lines) ==
    IF lines = << >> THEN << >>
    ELSE LET line == TrimSpace(Head(lines))
         IN  IF line # << >> /\ ~HasPrefix(line, <<"#">>)
             THEN <<line>> \o keepLines(Tail(lines))
             ELSE keepLines(Tail(lines))

\* loadProxiesFromFile of a file that opens and reads without error
loadProxiesFromFile(content) == keepLines(ScanLines(content))

(***************************************************************************)
(* testProxy.  The network's part in one probe is a record net:            *)
(*   dialErr   proxy.SOCKS5 returns an error                               *)
(*   doErr     client.Do returns an error (refused, timeout, TLS, DNS)     *)
(*   readErr   io.Copy of the body returns an error                        *)
(*   status    resp.StatusCode                                             *)
(*   elapsed   time.Since(start)                                           *)
(* urlOK says whether http.NewRequest accepts the -url flag.               *)
(***************************************************************************)
StatusCodes == {199, 200, 399, 400}

Net == [dialErr : BOOLEAN, doErr : BOOLEAN, readErr : BOOLEAN,
        status : StatusCodes, elapsed : 1..MaxLatency]

\* the kinds of failure a network can show
FaultKinds == {"dial", "request", "read", "status"}

\* the answers of a network that shows the failures of the given kinds only
Answers(faults) ==
    {net \in Net : /\ net.dialErr => "dial" \in faults
                   /\ net.doErr => "request" \in faults
                   /\ net.readErr => "read" \in faults
                   /\ ~(net.status >= 200 /\ net.status < 400) => "status" \in faults}

\* an error string: the fixed text of its format, what %v prints after it,
\* and the number %d prints after it (0: none)
ErrorString(text, detail, code) == [text |-> text, detail |-> detail, code |-> code]
NoError == ErrorString("", "", 0)

\* the string is empty
IsEmptyError(e) == e.text = "" /\ e.detail = "" /\ e.code = 0

\* what %v prints of an error of proxy.SOCKS5, http.NewRequest, client.Do
\* or io.Copy
LibraryError == "err"

\* lines 155-158: the result testProxy starts from
newResult(proxyStr) ==
    [Proxy |-> proxyStr, Success |-> FALSE, Latency |-> 0, Error |-> NoError]

\* an error return that forgets to set result.Error
failedSilently(result, text, detail) == result

\* an error return that stops the clock first
failedTimed(result, text, detail) ==
    [result EXCEPT !.Error = ErrorString(text, detail, 0), !.Latency = 1]

\* lines 162-163, 179-180, 205-206, 213-214, 221-222: result.Error is set
\* and the result returned as it is
failed(result, text, detail) ==
    [result EXCEPT !.Error = ErrorString(text, detail, 0)]

\* line 226 with <= 400 for < 400
StatusOKUpTo400(status) == status >= 200 /\ status <= 400

\* line 226: resp.StatusCode >= 200 && resp.StatusCode < 400
StatusOK(status) == status >= 200 /\ status < 400

\* measured that reports a failing status as resp.Status does, without the
\* text "HTTP "
measuredRespStatus(result, elapsed, status) ==
    [result EXCEPT !.Latency = elapsed,
                   !.Success = StatusOK(status),
                   !.Error = IF ~StatusOK(status)
                             THEN ErrorString("", "", status)
                             ELSE result.Error]

\* lines 225-232: the clock is stopped, the status decides Success, and a
\* status that fails sets the error
measured(result, elapsed, status) ==
    [result EXCEPT !.Latency = elapsed,
                   !.Success = StatusOK(status),
                   !.Error = IF ~StatusOK(status)
                             THEN ErrorString("HTTP ", "", status)
                             ELSE result.Error]

\* the steps of testProxy, in the order of the code
StepsOfProbe == <<"parseProxy", "proxy.SOCKS5", "http.NewRequest", "client.Do",
                  "io.Copy", "StatusCode">>

\* history of one call: the steps it ran and the status it read (0: none)
Ran(n, status) == [steps |-> SubSeq(StepsOfProbe, 1, n), status |-> status]
NotRun == Ran(0, 0)

\* testProxy that looks at the error of client.Do before the error of
\* proxy.SOCKS5
testProxyOutOfOrder(proxyStr, net, urlOK) ==
    LET result == newResult(proxyStr)
        parsed == parseProxy(proxyStr)
    IN  IF ~parsed.ok
        THEN [result |-> failed(result, "invalid proxy format: ", parsed.err),
              ran |-> Ran(1, 0)]
        ELSE IF ~urlOK
        THEN [result |-> failed(result, "failed to create request: ", LibraryError),
              ran |-> Ran(3, 0)]
        ELSE IF net.doErr
        THEN [result |-> failed(result, "request failed: ", LibraryError),
              ran |-> Ran(4, 0)]
        ELSE IF net.dialErr
        THEN [result |-> failed(result, "failed to create dialer: ", LibraryError),
              ran |-> Ran(2, 0)]
        ELSE IF net.readErr
        THEN [result |-> failed(result, "failed to read response: ", LibraryError),
              ran |-> Ran(5, 0)]
        ELSE [result |-> measured(result, net.elapsed, net.status),
              ran |-> Ran(6, net.status)]

\* testProxy: the TestResult it returns, and the history of the call
testProxy(proxyStr, net, urlOK) ==
    LET result == newResult(proxyStr)
        parsed == parseProxy(proxyStr)
    IN  IF ~parsed.ok
        THEN [result |-> failed(result, "invalid proxy format: ", parsed.err),
              ran |-> Ran(1, 0)]
        ELSE IF net.dialErr
        THEN [result |-> failed(result, "failed to create dialer: ", LibraryError),
              ran |-> Ran(2, 0)]
        ELSE IF ~urlOK
        THEN [result |-> failed(result, "failed to create request: ", LibraryError),
              ran |-> Ran(3, 0)]
        ELSE IF net.doErr
        THEN [result |-> failed(result, "request failed: ", LibraryError),
              ran |-> Ran(4, 0)]
        ELSE IF net.readErr
        THEN [result |-> failed(result, "failed to read response: ", LibraryError),
              ran |-> Ran(5, 0)]
        ELSE [result |-> measured(result, net.elapsed, net.status),
              ran |-> Ran(6, net.status)]

(***************************************************************************)
(* saveSuccessfulProxies: what the loop writes to the file                 *)
(***************************************************************************)
RECURSIVE successLines(_)
successLines(results) ==
    IF results = << >> THEN << >>
    ELSE IF Head(results).Success
         THEN Head(results).Proxy \o <<LF>> \o successLines(Tail(results))
         ELSE successLines(Tail(results))

RECURSIVE successCount(_)
successCount(results) ==
    IF results = << >> THEN 0
    ELSE (IF Head(results).Success THEN 1 ELSE 0) + successCount(Tail(results))

(***************************************************************************)
(* The inputs of the model.                                                *)
(***************************************************************************)
RawHostPort == <<"h", ":", "1">>
RawNoPort == <<"h">>

\* the lines a proxy list file is made of: a proxy, the same proxy with
\* white space around it, a proxy without a port, a comment, a blank line
FileLines == {RawHostPort,
              <<SP, "h", ":", "1", CR>>,
              RawNoPort,
              <<"#", "h", ":", "1">>,
              << >>}

RECURSIVE SeqsUpTo(_, _)
SeqsUpTo(S, n) ==
    IF n = 0 THEN {<< >>}
    ELSE LET shorter == SeqsUpTo(S, n - 1)
         IN  shorter \cup {Append(q, x) : q \in shorter, x \in S}

\* a file of the given lines, each ended by LF
RECURSIVE JoinLines(_)
JoinLines(lines) ==
    IF lines = << >> THEN << >>
    ELSE Head(lines) \o <<LF>> \o JoinLines(Tail(lines))

Files == {JoinLines(lines) : lines \in SeqsUpTo(FileLines, MaxLines)}

\* well-formed values of the -proxy flag
WellFormedRaws ==
    {RawHostPort,
     <<"s", "o", "c", "k", "s", "5", ":", "/", "/", "h", ":", "1">>,
     <<"s", "o", "c", "k", "s", "4", ":", "/", "/", "h", ":", "1">>,
     <<"u", ":", "p", "@", "h", ":", "1">>,
     <<"u", "@", "h", ":", "1">>}

\* values the parser accepts although they carry more than host and port:
\* a path that ends in a space, a fragment that ends in a space
TrailingRaws ==
    {<<"h", ":", "1", "/", SP>>,
     <<"h", ":", "1", "#", SP>>}

\* "not a valid proxy!!"
RawNotValid == <<"n", "o", "t", SP, "a", SP, "v", "a", "l", "i", "d", SP, "p", "r",
                 "o", "x", "y", "!", "!">>

\* malformed values: no port, no host, no host and no port, not URL syntax
\* (a space, a non-numeric port, a bad escape, a control character)
MalformedRaws ==
    {RawNoPort,
     <<"h", ":">>,
     <<":", "1">>,
     <<"u", ":", "p", "@", "h">>,
     <<"u", "@", ":", "1">>,
     <<"s", "o", "c", "k", "s", "5", ":", "/", "/">>,
     <<"#", "h", ":", "1">>,
     RawNotValid,
     <<"h", ":", "1", SP>>,
     <<SP, "h", ":", "1">>,
     <<"h", ":", "x">>,
     <<"h", ":", "1", "/", "%", "z">>,
     <<"h", "%", "2", "0", ":", "1">>,
     <<"u", SP, "p", "@", "h", ":", "1">>,
     <<"h", ":", "1", TAB>>}

\* the empty string: no value of the -proxy flag and no line of a file, but
\* a possible element of the list testProxies is called with
EmptyRaw == << >>

\* values of the -proxy flag
ProxyArgs == WellFormedRaws \cup TrailingRaws \cup MalformedRaws

\* values of the -threads flag
ThreadValues == (0 - 1)..MaxThreads

NoResult == newResult(<< >>)

\* the local state of a worker the go statement has just started: where it
\* is, its proxyStr and result, and as history what the call of testProxy
\* ran that made the result, and how many items the worker has taken
NewWorker == [pc |-> "recv", proxyStr |-> << >>, result |-> NoResult,
              ran |-> NotRun, taken |-> 0]

\* the bag that holds w once
One(w) == SetToBag({w})

(***************************************************************************)
(* The state.                                                              *)
(***************************************************************************)
VARIABLES
    proxies,        \* the list under test (main's proxies, testProxies' argument)
    threads,        \* *threadsFlag, testProxies' threads
    urlOK,          \* http.NewRequest accepts *testURLFlag
    faults,         \* the kinds of failure the network shows during this run
    pc,             \* where the main goroutine is
    i,              \* the counter of the loop that starts the workers
    next,           \* the index of the next proxy to send to the workers
    wg,             \* the counter of the sync.WaitGroup
    proxyChan,      \* the buffered items of proxyChan
    proxyClosed,    \* close(proxyChan) has happened
    resultsChan,    \* the buffered items of resultsChan
    resultsClosed,  \* close(resultsChan) has happened
    workers,        \* the bag of the worker goroutines' local states
    results,        \* testProxies' results
    report,         \* the counts displayResults prints
    stdout,         \* what saveSuccessfulProxies prints
    outFile,        \* the output file
    reloaded,       \* the output file as loadProxiesFromFile returns it
    probeLog,       \* history: the arguments of the calls of testProxy, in order
    depositLog      \* history: the results sent to resultsChan, in order

vars == <<proxies, threads, urlOK, faults, pc, i, next, wg, proxyChan, proxyClosed,
          resultsChan, resultsClosed, workers, results, report,
          stdout, outFile, reloaded, probeLog, depositLog>>

mainVars == <<report, stdout, outFile, reloaded>>
workerVars == <<workers, probeLog, depositLog>>

NoReport == [tested |-> 0, successful |-> 0, failed |-> 0, printed |-> FALSE]
NoFile == [exists |-> FALSE, content |-> << >>]
NoStdout == [text |-> "", count |-> 0]

InitCommon ==
    /\ threads \in ThreadValues
    /\ urlOK \in BOOLEAN
    /\ i = 0
    /\ next = 1
    /\ wg = 0
    /\ proxyChan = << >>
    /\ proxyClosed = FALSE
    /\ resultsChan = << >>
    /\ resultsClosed = FALSE
    /\ workers = EmptyBag
    /\ results = << >>
    /\ report = NoReport
    /\ stdout = NoStdout
    /\ outFile = NoFile
    /\ reloaded = << >>
    /\ probeLog = << >>
    /\ depositLog = << >>

\* main after flag.Parse and after the proxies are loaded: one -proxy value,
\* or the lines loadProxiesFromFile keeps of the -file; or the process has
\* ended with exit status 1, for neither flag was given or the file could
\* not be read.  The network shows no failure or failures of one kind.
Init ==
    /\ \/ \E v \in ProxyArgs : proxies = <<v>> /\ pc = "main"
       \/ \E f \in Files : proxies = loadProxiesFromFile(f) /\ pc = "main"
       \/ proxies = << >> /\ pc = "exit1"
    /\ faults \in {{ }} \cup {{k} : k \in FaultKinds}
    /\ InitCommon

(***************************************************************************)
(* main, up to the call of testProxies                                     *)
(***************************************************************************)
\* main lines 78-88: an empty list ends the process with exit status 1;
\* otherwise the header is printed and testProxies is called, which makes
\* the two channels with room for len(proxies) items each
MainStart ==
    /\ pc = "main"
    /\ pc' = IF Len(proxies) = 0 THEN "exit1" ELSE "spawn"
    /\ UNCHANGED <<proxies, threads, urlOK, faults, i, next, wg, proxyChan, proxyClosed,
                   resultsChan, resultsClosed, results>>
    /\ UNCHANGED mainVars
    /\ UNCHANGED workerVars

(***************************************************************************)
(* testProxies, the calling goroutine                                      *)
(***************************************************************************)
\* channels made with room for one item per worker
CapPerWorker == threads

\* the capacity of both channels
Cap == Len(proxies)

\* StartWorker with the loop condition i <= threads
StartWorkerOffByOne ==
    /\ pc = "spawn"
    /\ i <= threads
    /\ wg' = wg + 1
    /\ workers' = workers (+) One(NewWorker)
    /\ i' = i + 1
    /\ UNCHANGED <<proxies, threads, urlOK, faults, pc, next, proxyChan, proxyClosed,
                   resultsChan, resultsClosed, results, probeLog, depositLog>>
    /\ UNCHANGED mainVars

\* StartWorker of a pool that always has a worker: the first round of the
\* loop runs whatever threads is
StartWorkerAtLeastOne ==
    /\ pc = "spawn"
    /\ i = 0 \/ i < threads
    /\ wg' = wg + 1
    /\ workers' = workers (+) One(NewWorker)
    /\ i' = i + 1
    /\ UNCHANGED <<proxies, threads, urlOK, faults, pc, next, proxyChan, proxyClosed,
                   resultsChan, resultsClosed, results, probeLog, depositLog>>
    /\ UNCHANGED mainVars

\* one round of "for i := 0; i < threads; i++": wg.Add(1) and the go
\* statement, which starts one more worker
StartWorker ==
    /\ pc = "spawn"
    /\ i < threads
    /\ wg' = wg + 1
    /\ workers' = workers (+) One(NewWorker)
    /\ i' = i + 1
    /\ UNCHANGED <<proxies, threads, urlOK, faults, pc, next, proxyChan, proxyClosed,
                   resultsChan, resultsClosed, results, probeLog, depositLog>>
    /\ UNCHANGED mainVars

\* the loop condition i < threads is false
StartDone ==
    /\ pc = "spawn"
    /\ ~(i < threads)
    /\ pc' = "seed"
    /\ UNCHANGED <<proxies, threads, urlOK, faults, i, next, wg, proxyChan, proxyClosed,
                   resultsChan, resultsClosed, results>>
    /\ UNCHANGED mainVars
    /\ UNCHANGED workerVars

\* proxyChan <- p: blocks while the buffer is full
SendProxy ==
    /\ pc = "seed"
    /\ next <= Len(proxies)
    /\ Len(proxyChan) < Cap
    /\ proxyChan' = Append(proxyChan, proxies[next])
    /\ next' = next + 1
    /\ UNCHANGED <<proxies, threads, urlOK, faults, pc, i, wg, proxyClosed,
                   resultsChan, resultsClosed, results>>
    /\ UNCHANGED mainVars
    /\ UNCHANGED workerVars

\* CloseProxyChan without the close: the workers are never told that the
\* list has ended
CloseProxyChanForgotten ==
    /\ pc = "seed"
    /\ next > Len(proxies)
    /\ pc' = "wait"
    /\ UNCHANGED <<proxies, threads, urlOK, faults, i, next, wg, proxyChan, proxyClosed,
                   resultsChan, resultsClosed, results>>
    /\ UNCHANGED mainVars
    /\ UNCHANGED workerVars

\* CloseProxyChan inside the loop: the channel is closed after any send
CloseProxyChanEarly ==
    /\ pc = "seed"
    /\ next > 1
    /\ proxyClosed' = TRUE
    /\ pc' = "wait"
    /\ UNCHANGED <<proxies, threads, urlOK, faults, i, next, wg, proxyChan,
                   resultsChan, resultsClosed, results>>
    /\ UNCHANGED mainVars
    /\ UNCHANGED workerVars

\* close(proxyChan), after the last send
CloseProxyChan ==
    /\ pc = "seed"
    /\ next > Len(proxies)
    /\ proxyClosed' = TRUE
    /\ pc' = "wait"
    /\ UNCHANGED <<proxies, threads, urlOK, faults, i, next, wg, proxyChan,
                   resultsChan, resultsClosed, results>>
    /\ UNCHANGED mainVars
    /\ UNCHANGED workerVars

\* Wait without the join: the main goroutine goes on at once
WaitNoJoin ==
    /\ pc = "wait"
    /\ pc' = "closeResults"
    /\ UNCHANGED <<proxies, threads, urlOK, faults, i, next, wg, proxyChan, proxyClosed,
                   resultsChan, resultsClosed, results>>
    /\ UNCHANGED mainVars
    /\ UNCHANGED workerVars

\* wg.Wait(): returns when the counter is zero
Wait ==
    /\ pc = "wait"
    /\ wg = 0
    /\ pc' = "closeResults"
    /\ UNCHANGED <<proxies, threads, urlOK, faults, i, next, wg, proxyChan, proxyClosed,
                   resultsChan, resultsClosed, results>>
    /\ UNCHANGED mainVars
    /\ UNCHANGED workerVars

\* close(resultsChan)
CloseResultsChan ==
    /\ pc = "closeResults"
    /\ resultsClosed' = TRUE
    /\ pc' = "collect"
    /\ UNCHANGED <<proxies, threads, urlOK, faults, i, next, wg, proxyChan, proxyClosed,
                   resultsChan, results>>
    /\ UNCHANGED mainVars
    /\ UNCHANGED workerVars

\* Collect that appends the successful results only
CollectSuccessOnly ==
    /\ pc = "collect"
    /\ resultsChan # << >>
    /\ results' = IF Head(resultsChan).Success
                  THEN Append(results, Head(resultsChan))
                  ELSE results
    /\ resultsChan' = Tail(resultsChan)
    /\ UNCHANGED <<proxies, threads, urlOK, faults, pc, i, next, wg, proxyChan,
                   proxyClosed, resultsClosed>>
    /\ UNCHANGED mainVars
    /\ UNCHANGED workerVars

\* Collect that puts the item in front of the results
CollectInFront ==
    /\ pc = "collect"
    /\ resultsChan # << >>
    /\ results' = <<Head(resultsChan)>> \o results
    /\ resultsChan' = Tail(resultsChan)
    /\ UNCHANGED <<proxies, threads, urlOK, faults, pc, i, next, wg, proxyChan, proxyClosed,
                   resultsClosed>>
    /\ UNCHANGED mainVars
    /\ UNCHANGED workerVars

\* one round of "for result := range resultsChan": append the oldest item
Collect ==
    /\ pc = "collect"
    /\ resultsChan # << >>
    /\ results' = Append(results, Head(resultsChan))
    /\ resultsChan' = Tail(resultsChan)
    /\ UNCHANGED <<proxies, threads, urlOK, faults, pc, i, next, wg, proxyChan, proxyClosed,
                   resultsClosed>>
    /\ UNCHANGED mainVars
    /\ UNCHANGED workerVars

\* the range loop ends on the closed and empty channel; return results
Return ==
    /\ pc = "collect"
    /\ resultsChan = << >>
    /\ resultsClosed
    /\ pc' = "returned"
    /\ UNCHANGED <<proxies, threads, urlOK, faults, i, next, wg, proxyChan, proxyClosed,
                   resultsChan, resultsClosed, results>>
    /\ UNCHANGED mainVars
    /\ UNCHANGED workerVars

(***************************************************************************)
(* testProxies, the worker goroutines                                      *)
(***************************************************************************)
\* the workers in the bag, each once
Running == BagToSet(workers)

\* the worker w takes the step that leaves it in the local state v
Step(w, v) == (workers (-) One(w)) (+) One(v)

\* Take from a stack: the newest item first
TakeNewest(w) ==
    /\ w.pc = "recv"
    /\ proxyChan # << >>
    /\ workers' = Step(w, [w EXCEPT !.pc = "probe",
                                    !.proxyStr = proxyChan[Len(proxyChan)],
                                    !.taken = w.taken + 1])
    /\ proxyChan' = SubSeq(proxyChan, 1, Len(proxyChan) - 1)
    /\ UNCHANGED <<proxies, threads, urlOK, faults, pc, i, next, wg, proxyClosed,
                   resultsChan, resultsClosed, results, probeLog, depositLog>>
    /\ UNCHANGED mainVars

\* "for proxyStr := range proxyChan" receives the oldest item
Take(w) ==
    /\ w.pc = "recv"
    /\ proxyChan # << >>
    /\ workers' = Step(w, [w EXCEPT !.pc = "probe", !.proxyStr = Head(proxyChan),
                                    !.taken = w.taken + 1])
    /\ proxyChan' = Tail(proxyChan)
    /\ UNCHANGED <<proxies, threads, urlOK, faults, pc, i, next, wg, proxyClosed,
                   resultsChan, resultsClosed, results, probeLog, depositLog>>
    /\ UNCHANGED mainVars

\* Exit of a worker that leaves only when no probe is in flight
ExitWhenIdle(w) ==
    /\ w.pc = "recv"
    /\ proxyChan = << >>
    /\ proxyClosed
    /\ \A x \in Running : x.pc \notin {"probe", "send"}
    /\ workers' = Step(w, [w EXCEPT !.pc = "done"])
    /\ wg' = wg - 1
    /\ UNCHANGED <<proxies, threads, urlOK, faults, pc, i, next, proxyChan, proxyClosed,
                   resultsChan, resultsClosed, results, probeLog, depositLog>>
    /\ UNCHANGED mainVars

\* the range loop ends on the closed and empty channel; the deferred
\* wg.Done() runs
Exit(w) ==
    /\ w.pc = "recv"
    /\ proxyChan = << >>
    /\ proxyClosed
    /\ workers' = Step(w, [w EXCEPT !.pc = "done"])
    /\ wg' = wg - 1
    /\ UNCHANGED <<proxies, threads, urlOK, faults, pc, i, next, proxyChan, proxyClosed,
                   resultsChan, resultsClosed, results, probeLog, depositLog>>
    /\ UNCHANGED mainVars

\* Probe that tries again after a failure: the worker stays in the call
ProbeRetry(w) ==
    /\ w.pc = "probe"
    /\ \E r \in {testProxy(w.proxyStr, net, urlOK) : net \in Answers(faults)} :
          workers' = Step(w, [w EXCEPT !.pc = IF r.result.Success THEN "send" ELSE "probe",
                                       !.result = r.result,
                                       !.ran = r.ran])
    /\ probeLog' = Append(probeLog, w.proxyStr)
    /\ UNCHANGED depositLog
    /\ UNCHANGED <<proxies, threads, urlOK, faults, pc, i, next, wg, proxyChan, proxyClosed,
                   resultsChan, resultsClosed, results>>
    /\ UNCHANGED mainVars

\* result := testProxy(proxyStr, timeout, testURL), with whatever the
\* network answers
Probe(w) ==
    /\ w.pc = "probe"
    /\ \E r \in {testProxy(w.proxyStr, net, urlOK) : net \in Answers(faults)} :
          workers' = Step(w, [w EXCEPT !.pc = "send", !.result = r.result,
                                       !.ran = r.ran])
    /\ probeLog' = Append(probeLog, w.proxyStr)
    /\ UNCHANGED depositLog
    /\ UNCHANGED <<proxies, threads, urlOK, faults, pc, i, next, wg, proxyChan, proxyClosed,
                   resultsChan, resultsClosed, results>>
    /\ UNCHANGED mainVars

\* Deposit of a worker that gives up after a failed probe: it returns from
\* the function literal without sending the result
DepositOrAbort(w) ==
    /\ w.pc = "send"
    /\ resultsClosed \/ Len(resultsChan) < Cap
    /\ IF resultsClosed
       THEN /\ pc' = "panic"
            /\ UNCHANGED <<resultsChan, workers, wg, depositLog>>
       ELSE IF ~w.result.Success
       THEN /\ workers' = Step(w, [w EXCEPT !.pc = "done", !.proxyStr = << >>,
                                            !.result = NoResult, !.ran = NotRun])
            /\ wg' = wg - 1
            /\ UNCHANGED <<resultsChan, pc, depositLog>>
       ELSE /\ resultsChan' = Append(resultsChan, w.result)
            /\ depositLog' = Append(depositLog, w.result)
            /\ workers' = Step(w, [w EXCEPT !.pc = "recv", !.proxyStr = << >>,
                                            !.result = NoResult, !.ran = NotRun])
            /\ UNCHANGED <<pc, wg>>
    /\ UNCHANGED <<proxies, threads, urlOK, faults, i, next, proxyChan, proxyClosed,
                   resultsClosed, results, probeLog>>
    /\ UNCHANGED mainVars

\* resultsChan <- result: blocks while the buffer is full, panics on a
\* closed channel; then the next round of the loop, with a new proxyStr and
\* a new result
Deposit(w) ==
    /\ w.pc = "send"
    /\ resultsClosed \/ Len(resultsChan) < Cap
    /\ IF resultsClosed
       THEN /\ pc' = "panic"
            /\ UNCHANGED <<resultsChan, workers, depositLog>>
       ELSE /\ resultsChan' = Append(resultsChan, w.result)
            /\ depositLog' = Append(depositLog, w.result)
            /\ workers' = Step(w, [w EXCEPT !.pc = "recv", !.proxyStr = << >>,
                                            !.result = NoResult, !.ran = NotRun])
            /\ UNCHANGED pc
    /\ UNCHANGED <<proxies, threads, urlOK, faults, i, next, wg, proxyChan, proxyClosed,
                   resultsClosed, results, probeLog>>
    /\ UNCHANGED mainVars

(***************************************************************************)
(* main, after testProxies                                                 *)
(***************************************************************************)
\* displayResults: the counts of the line "Results: ..."
Display ==
    /\ pc = "returned"
    /\ report' = [tested |-> Len(results),
                  successful |-> successCount(results),
                  failed |-> Len(results) - successCount(results),
                  printed |-> TRUE]
    /\ pc' = "save"
    /\ UNCHANGED <<proxies, threads, urlOK, faults, i, next, wg, proxyChan, proxyClosed,
                   resultsChan, resultsClosed, results, stdout, outFile, reloaded>>
    /\ UNCHANGED workerVars

\* every proper prefix of a string, and the string itself when all is true
Prefixes(s, all) == {SubSeq(s, 1, n) : n \in 0..(IF all THEN Len(s) ELSE Len(s) - 1)}

\* main lines 94-96 and saveSuccessfulProxies.  Without -output nothing is
\* saved.  When os.Create fails the error is printed and nothing is written.
\* Otherwise the lines go through the bufio.Writer, whose errors are not
\* looked at: when a write fails the file holds a proper prefix of them, and
\* the count is printed all the same.
Save ==
    /\ pc = "save"
    /\ \E output \in BOOLEAN, createOK \in BOOLEAN, writeOK \in BOOLEAN :
          IF ~output
          THEN UNCHANGED <<stdout, outFile>>
          ELSE IF ~createOK
          THEN /\ stdout' = [text |-> "Error creating output file: ", count |-> 0]
               /\ UNCHANGED outFile
          ELSE /\ \E written \in Prefixes(successLines(results),
                                          writeOK \/ successLines(results) = << >>) :
                     outFile' = [exists |-> TRUE, content |-> written]
               /\ stdout' = [text |-> " successful proxies saved to ",
                             count |-> successCount(results)]
    /\ pc' = "done"
    /\ UNCHANGED <<proxies, threads, urlOK, faults, i, next, wg, proxyChan, proxyClosed,
                   resultsChan, resultsClosed, results, report, reloaded>>
    /\ UNCHANGED workerVars

\* a later run with -file naming the output file: loadProxiesFromFile
LoadSaved ==
    /\ pc = "done"
    /\ outFile.exists
    /\ reloaded' = loadProxiesFromFile(outFile.content)
    /\ pc' = "reloaded"
    /\ UNCHANGED <<proxies, threads, urlOK, faults, i, next, wg, proxyChan, proxyClosed,
                   resultsChan, resultsClosed, results, report, stdout, outFile>>
    /\ UNCHANGED workerVars

\* the steps of the goroutines on the channels and the WaitGroup: every step
\* of testProxies but the calls of testProxy
ChannelSteps ==
    \/ StartWorker
    \/ StartDone
    \/ SendProxy
    \/ CloseProxyChan
    \/ Wait
    \/ CloseResultsChan
    \/ Collect
    \/ Return
    \/ \E w \in Running : Take(w)
    \/ \E w \in Running : Exit(w)
    \/ \E w \in Running : Deposit(w)

testProxiesNext ==
    \/ ChannelSteps
    \/ \E w \in Running : Probe(w)

Next ==
    \/ MainStart
    \/ testProxiesNext
    \/ Display
    \/ Save
    \/ LoadSaved

Spec == Init /\ [][Next]_vars

(***************************************************************************)
(* testProxies called on its own: with no proxy or with one, which may be  *)
(* any string, the empty one too, and with a network that can fail in      *)
(* every way.                                                              *)
(***************************************************************************)
InitCall ==
    /\ proxies \in {<< >>} \cup {<<v>> : v \in ProxyArgs \cup {EmptyRaw}}
    /\ faults = FaultKinds
    /\ pc = "spawn"
    /\ InitCommon

SpecCall == InitCall /\ [][testProxiesNext]_vars

(***************************************************************************)
(* Definitions the properties share.                                       *)
(***************************************************************************)
\* the size of the input
N == Len(proxies)

\* testProxies has returned
Returned == pc \in {"returned", "save", "done", "reloaded"}

\* the number of workers among the given local states
NumWorkers(S) == BagCardinality([w \in S |-> workers[w]])

\* a worker has taken an item and not yet deposited its outcome
Probing(w) == w.pc \in {"probe", "send"}
InFlight == NumWorkers({w \in Running : Probing(w)})

\* the bag of the elements of a sequence
BagOfSeq(q) ==
    [x \in {q[k] : k \in 1..Len(q)} |-> Cardinality({k \in 1..Len(q) : q[k] = x})]

\* the Proxy fields of a sequence of results
ProxyFields(rs) == [k \in 1..Len(rs) |-> rs[k].Proxy]

(***************************************************************************)
(* Properties of testProxies.                                              *)
(***************************************************************************)
\* C1: for a list of N proxies and a concurrency from 1 to 2N, testProxies
\* returns exactly N outcomes, whatever the interleaving of the workers and
\* whichever probes fail.
C1_ExactlyNOutcomes ==
    (Returned /\ threads >= 1 /\ threads <= 2 * N) => Len(results) = N

\* a run of the largest list with twice as many workers has returned, with a
\* failed outcome collected before a successful one
C1_Witness ==
    /\ pc = "returned"
    /\ N = MaxLines
    /\ threads = 2 * N
    /\ \E k \in 1..Len(results) : \E l \in 1..Len(results) :
          k < l /\ ~results[k].Success /\ results[l].Success

\* C2: at every moment the number of probes in flight (items taken from
\* proxyChan whose outcome is not yet in resultsChan) is at most the
\* concurrency, also when the list is longer than that.
C2_InFlightAtMostThreads == threads >= 1 => InFlight <= threads

\* as many probes are in flight as there are workers, and an item waits in
\* the queue
C2_Witness ==
    /\ threads >= 1
    /\ InFlight = threads
    /\ proxyChan # << >>
    /\ N > threads

\* a worker has left the range loop and run wg.Done()
Done(w) == w.pc = "done"

\* C3: when testProxies returns, every worker that was started has
\* finished, no worker holds an item or a result, and no outcome is left in
\* resultsChan; and when it was called within its contract, with a
\* concurrency of at least 1, all the workers were started and proxyChan is
\* empty.
C3_ReturnsAfterFullDrain ==
    Returned =>
        /\ \A w \in Running : Done(w) /\ w.proxyStr = << >> /\ w.result = NoResult
        /\ InFlight = 0
        /\ resultsChan = << >>
        /\ wg = 0
        /\ threads >= 1 =>
              /\ NumWorkers({w \in Running : Done(w)}) = threads
              /\ proxyChan = << >>

\* testProxies has returned from a run of several workers and several
\* proxies
C3_Witness ==
    /\ pc = "returned"
    /\ threads >= 2
    /\ N >= 2
    /\ Len(results) = N

\* C4: a probe that fails cancels no other probe and does not abort the
\* run.  The process ends early only on an empty list, before any probe;
\* once a probe has run, whatever its outcome, every input is probed and has
\* its outcome in the returned collection, and the report counts them all.
C4_FailuresAreIsolated ==
    /\ pc = "exit1" => N = 0 /\ probeLog = << >>
    /\ pc # "panic"
    /\ (Returned /\ probeLog # << >>) =>
          /\ BagOfSeq(probeLog) = BagOfSeq(proxies)
          /\ BagOfSeq(ProxyFields(results)) = BagOfSeq(proxies)
    /\ (report.printed /\ probeLog # << >>) =>
          /\ report.tested = N
          /\ report.failed = Cardinality({k \in 1..Len(results) : ~results[k].Success})
          /\ report.successful + report.failed = N

\* the report is printed for a run in which the first outcome collected is
\* a failure of the network and a later one is a success
C4_Witness ==
    /\ report.printed
    /\ Len(results) >= 2
    /\ ~results[1].Success
    /\ results[1].Error.text # "invalid proxy format: "
    /\ \E k \in 2..Len(results) : results[k].Success

(***************************************************************************)
(* Properties of testProxy, checked on testProxies called with one proxy.  *)
(***************************************************************************)
\* the workers that hold the result of a call of testProxy
Called == {w \in Running : w.pc = "send"}

\* every outcome there is: held by a worker, in resultsChan, collected
Outcomes ==
    {w.result : w \in Called}
        \cup {resultsChan[k] : k \in 1..Len(resultsChan)}
        \cup {results[k] : k \in 1..Len(results)}

\* C5: for every malformed string (no port, no host, the empty string, not
\* URL syntax) parseProxy fails, and testProxy returns success=false with
\* the error "invalid proxy format: ..." and no other, having run nothing
\* after parseProxy: no dialer is made and no request is sent.
C5_MalformedIsParseError ==
    /\ \A w \in Called :
          w.proxyStr \in MalformedRaws \cup {EmptyRaw} =>
              /\ ~parseProxy(w.proxyStr).ok
              /\ w.ran.steps = <<"parseProxy">>
              /\ w.result.Proxy = w.proxyStr
    /\ \A r \in Outcomes :
          r.Proxy \in MalformedRaws \cup {EmptyRaw} =>
              /\ ~r.Success
              /\ r.Error.text = "invalid proxy format: "
              /\ r.Error.detail # ""
              /\ r.Error.code = 0

\* the call of testProxy on "not a valid proxy!!" has returned
C5_Witness ==
    \E w \in Called :
        /\ w.proxyStr = RawNotValid
        /\ w.result.Error.detail = "invalid character in host name"

\* C6: when the probe has got a response and drained its body, success is
\* true exactly when the status s satisfies 200 <= s < 400 (199 and 400
\* fail, 200 and 399, an unfollowed redirect, succeed), and on success the
\* error is unset.
C6_SuccessIffStatusInRange ==
    \A w \in Called :
        Len(w.ran.steps) = Len(StepsOfProbe) =>
            /\ w.result.Success <=> (w.ran.status >= 200 /\ w.ran.status < 400)
            /\ w.ran.status \in {199, 400} => ~w.result.Success
            /\ w.ran.status \in {200, 399} => w.result.Success
            /\ w.result.Success => IsEmptyError(w.result.Error)

\* the call of testProxy that read the status 399 has returned a success
C6_Witness ==
    \E w \in Called :
        /\ w.ran.steps = StepsOfProbe
        /\ w.ran.status = 399
        /\ w.result.Success

\* C7: testProxy returns an outcome for every string and every answer of the
\* network (whatever the network answers to a worker that has taken an item,
\* the call yields a result for that item, and nothing panics), and in every
\* outcome the error is non-empty exactly when success is false.
C7_ErrorIffNotSuccess ==
    /\ \A w \in Running :
          w.pc = "probe" =>
              \A net \in Net :
                  LET r == testProxy(w.proxyStr, net, urlOK).result
                  IN  /\ r.Proxy = w.proxyStr
                      /\ ~IsEmptyError(r.Error) <=> ~r.Success
    /\ pc # "panic"
    /\ \A r \in Outcomes : ~IsEmptyError(r.Error) <=> ~r.Success

\* outcomes of both kinds have been returned: a failure on the status 400
\* is held by the worker
C7_Witness ==
    \E w \in Called :
        /\ ~w.result.Success
        /\ w.result.Error = ErrorString("HTTP ", "", 400)
        /\ w.result.Latency > 0

(***************************************************************************)
(* More properties of testProxies.                                         *)
(***************************************************************************)
\* a worker has finished without ever taking an item
ExitedIdle(w) == Done(w) /\ w.taken = 0

\* C8: with more workers than proxies, a worker that finds proxyChan closed
\* and empty can leave at once, whatever the other workers are doing; at
\* least threads - N workers finish without running a probe, and the run
\* returns N outcomes.
C8_ExcessWorkersExit ==
    threads > N =>
        /\ \A w \in Running :
              (w.pc = "recv" /\ proxyClosed /\ proxyChan = << >>) => ENABLED Exit(w)
        /\ \A w \in Running : w.taken = 0 => w.proxyStr = << >> /\ w.ran = NotRun
        /\ Returned =>
              /\ Len(results) = N
              /\ NumWorkers({w \in Running : ExitedIdle(w)}) >= threads - N

\* a worker has left without a probe while another worker's probe is still
\* running
C8_Witness ==
    /\ threads > N
    /\ N >= 1
    /\ \E w \in Running : ExitedIdle(w)
    /\ \E w \in Running : w.pc = "probe"

\* q is the beginning of r
IsPrefix(q, r) == Len(q) <= Len(r) /\ q = SubSeq(r, 1, Len(q))

\* C9: with a concurrency of 1 at most one probe is in flight, the proxies
\* are probed in the order of the input, and the returned collection lists
\* the outcomes in that order.
C9_SequentialInInputOrder ==
    threads = 1 =>
        /\ InFlight <= 1
        /\ IsPrefix(probeLog, proxies)
        /\ IsPrefix(ProxyFields(results \o resultsChan), proxies)
        /\ Returned => ProxyFields(results) = proxies

\* a run of one worker over two different proxies has returned
C9_Witness ==
    /\ threads = 1
    /\ pc = "returned"
    /\ N >= 2
    /\ proxies[1] # proxies[2]
    /\ results[1].Success # results[2].Success

(***************************************************************************)
(* Properties of saveSuccessfulProxies and loadProxiesFromFile.            *)
(***************************************************************************)
Succeeded(r) == r.Success

\* the strings of the successful outcomes, in the order of the collection
SuccessfulRaws(rs) == ProxyFields(SelectSeq(rs, Succeeded))

\* C10: when saveSuccessfulProxies has written the file, loadProxiesFromFile
\* on it returns exactly the strings of the successful outcomes, unchanged
\* and in the same order.
C10_RoundTrip ==
    (pc = "reloaded" /\ outFile.content = successLines(results)) =>
        reloaded = SuccessfulRaws(results)

\* saveSuccessfulProxies has returned
Saved == pc \in {"done", "reloaded"}

\* saveSuccessfulProxies has printed how many proxies it saved
SaveReported == stdout.text = " successful proxies saved to "

\* the file was created and does not hold all the lines of the loop: a write
\* to it failed
WriteFailed == outFile.exists /\ outFile.content # successLines(results)

\* C11: saveSuccessfulProxies writes one line per successful outcome and none
\* per failed outcome, the count it prints is the number of successful
\* outcomes of the collection, and when a write to the file fails the user is
\* told so (no "saved" message is printed for lines that were not saved),
\* the run goes on to its end and the results in memory stay as they were.
C11_SaveReportsWriteFailure ==
    Saved =>
        /\ report.tested = Len(results)
        /\ report.successful = successCount(results)
        /\ SaveReported =>
              /\ stdout.count = successCount(results)
              /\ outFile.exists
              /\ outFile.content = successLines(results)
        /\ WriteFailed => ~SaveReported /\ stdout.text # ""

(***************************************************************************)
(* Termination of testProxies.  The call is made on a list of up to        *)
(* MaxLines proxies, well-formed or not, with a network on which no        *)
(* request fails or requests can fail.  The Go scheduler runs a goroutine that is not blocked: a    *)
(* step on a channel or on the WaitGroup that stays possible is taken.     *)
(* Every call of testProxy returns, by the timeout of its http.Client at   *)
(* the latest: again and again no worker is inside testProxy.              *)
(***************************************************************************)
InitLive ==
    /\ proxies \in SeqsUpTo({RawHostPort, RawNoPort}, MaxLines)
    /\ faults \in {{ }, {"request"}}
    /\ pc = "spawn"
    /\ InitCommon

ProbesEnd == []<>(\A w \in Running : w.pc # "probe")

Fairness == WF_vars(ChannelSteps) /\ ProbesEnd

SpecLive == InitLive /\ [][testProxiesNext]_vars /\ Fairness

\* C12: called with a list of any size, the empty one too, and a concurrency
\* of at least 1, testProxies returns in the end: no worker stays blocked on
\* proxyChan or resultsChan and the main goroutine does not stay blocked in
\* a send, in wg.Wait() or in the range over resultsChan.
C12_EventuallyReturns == threads >= 1 => <>(pc = "returned")

\* testProxies has returned from a call with more proxies than workers, in
\* which a request failed
C12_Witness ==
    /\ pc = "returned"
    /\ threads >= 1
    /\ N > threads
    /\ Len(results) = N
    /\ \E k \in 1..N : results[k].Error.text = "request failed: "

(***************************************************************************)
(* More properties of testProxy, checked on testProxies called with one    *)
(* proxy.                                                                  *)
(***************************************************************************)
\* the fixed text of the error each step leaves when it fails
ErrorOfStep == <<"invalid proxy format: ", "failed to create dialer: ",
                 "failed to create request: ", "request failed: ",
                 "failed to read response: ", "HTTP ">>

\* the step of that number would fail on this string, this answer of the
\* network and this -url
StepFails(k, proxyStr, net, urlOK_) ==
    CASE k = 1 -> ~parseProxy(proxyStr).ok
      [] k = 2 -> net.dialErr
      [] k = 3 -> ~urlOK_
      [] k = 4 -> net.doErr
      [] k = 5 -> net.readErr
      [] k = 6 -> ~(net.status >= 200 /\ net.status < 400)

\* the least number of a non-empty set of numbers
Least(S) == CHOOSE k \in S : \A l \in S : k <= l

\* C13: testProxy runs its steps in the order parseProxy, proxy.SOCKS5,
\* the HTTP request (http.NewRequest, client.Do), io.Copy of the body, the
\* check of the status.  Whatever the network answers, the first step that
\* fails decides the outcome: the steps after it are not run and the error
\* is the one of that step; when no step fails all are run and the outcome
\* is a success.
C13_FirstFailureDecides ==
    /\ \A w \in Running :
          w.pc = "probe" =>
              \A net \in Net :
                  LET out == testProxy(w.proxyStr, net, urlOK)
                      failing == {k \in 1..Len(StepsOfProbe) :
                                     StepFails(k, w.proxyStr, net, urlOK)}
                  IN  IF failing = { }
                      THEN out.ran.steps = StepsOfProbe /\ out.result.Success
                      ELSE /\ out.ran.steps = SubSeq(StepsOfProbe, 1, Least(failing))
                           /\ out.result.Error.text = ErrorOfStep[Least(failing)]
                           /\ ~out.result.Success
    /\ \A w \in Called :
          /\ IsPrefix(w.ran.steps, StepsOfProbe)
          /\ w.ran.steps # << >>
          /\ ~w.result.Success =>
                w.result.Error.text = ErrorOfStep[Len(w.ran.steps)]
          /\ w.result.Error.text = "failed to create dialer: " =>
                w.ran.steps = <<"parseProxy", "proxy.SOCKS5">>
          /\ w.result.Error.text = "failed to read response: " =>
                w.ran.steps = SubSeq(StepsOfProbe, 1, 5) /\ w.ran.status = 0

\* a call of testProxy has returned after the failure of proxy.SOCKS5
C13_Witness ==
    \E w \in Called :
        /\ w.result.Error.text = "failed to create dialer: "
        /\ w.ran.steps = <<"parseProxy", "proxy.SOCKS5">>
        /\ parseProxy(w.proxyStr).ok

\* the error classes of the taxonomy, each by the fixed text of its errors:
\* ParseError, DialError, RequestError, ReadError, StatusError
FiveClasses == {"invalid proxy format: ", "failed to create dialer: ",
                "request failed: ", "failed to read response: ", "HTTP "}

\* and the class of the errors of http.NewRequest
SixClasses == FiveClasses \cup {"failed to create request: "}

\* the error is of the class: it has the text of the class, and then the
\* detail of an underlying error, or for a StatusError the number of a
\* status outside [200,400)
InClass(e, class) ==
    /\ e.text = class
    /\ IF class = "HTTP "
       THEN e.detail = "" /\ ~(e.code >= 200 /\ e.code < 400)
       ELSE e.detail # "" /\ e.code = 0

\* the result is a success, or a failure whose error is of exactly one of
\* the classes
Classified(r, classes) ==
    ~r.Success => Cardinality({class \in classes : InClass(r.Error, class)}) = 1

\* C14 as stated: every failed outcome of testProxy is of exactly one of the
\* five classes ParseError, DialError, RequestError, ReadError, StatusError,
\* for every string and every target URL.
C14_FiveErrorClasses ==
    /\ \A w \in Running :
          w.pc = "probe" =>
              \A net \in Net :
                  Classified(testProxy(w.proxyStr, net, urlOK).result, FiveClasses)
    /\ \A r \in Outcomes : Classified(r, FiveClasses)

\* C14 as amended: every failed outcome of testProxy is of exactly one of
\* six classes, the five of the taxonomy and "failed to create request",
\* the error of http.NewRequest on a target URL it does not accept; and
\* when http.NewRequest accepts the target URL, of one of the five.
C14_SixErrorClasses ==
    /\ \A w \in Running :
          w.pc = "probe" =>
              \A net \in Net :
                  Classified(testProxy(w.proxyStr, net, urlOK).result,
                             IF urlOK THEN FiveClasses ELSE SixClasses)
    /\ \A r \in Outcomes : Classified(r, IF urlOK THEN FiveClasses ELSE SixClasses)

\* a call of testProxy has returned the error of http.NewRequest, and the
\* outcome has been collected
C14_Witness ==
    /\ ~urlOK
    /\ \E k \in 1..Len(results) :
          /\ ~results[k].Success
          /\ results[k].Error.text = "failed to create request: "
          /\ InClass(results[k].Error, "failed to create request: ")

\* the call that made the result reached the check of the status
ReachedStatus(ran) == ran.steps = StepsOfProbe

\* C15: the elapsed duration of an outcome is recorded exactly when the probe
\* reached the status check.  It is set for a success and for a failure on
\* the status (success=false, error "HTTP" and the status read), and it is
\* zero for a parse failure and for every failure that returns before the
\* clock is stopped: dialer, request, body read.
C15_LatencyIffStatusReached ==
    /\ \A w \in Running :
          w.pc = "probe" =>
              \A net \in Net :
                  LET out == testProxy(w.proxyStr, net, urlOK)
                  IN  /\ ReachedStatus(out.ran) <=> out.result.Latency > 0
                      /\ ReachedStatus(out.ran) => out.result.Latency = net.elapsed
                      /\ ~ReachedStatus(out.ran) => out.result.Latency = 0
    /\ \A w \in Called :
          /\ ReachedStatus(w.ran) <=> w.result.Latency > 0
          /\ ~ReachedStatus(w.ran) => w.result.Latency = 0
          /\ (ReachedStatus(w.ran) /\ ~w.result.Success) =>
                w.result.Error = ErrorString("HTTP ", "", w.ran.status)
    /\ \A r \in Outcomes :
          /\ r.Success => r.Latency > 0
          /\ (~r.Success /\ r.Error.text = "HTTP ") => r.Latency > 0
          /\ r.Error.text \in SixClasses \ {"HTTP "} => r.Latency = 0

\* a call that failed on the status 199 has returned, and holds its elapsed
\* time
C15_Witness ==
    \E w \in Called :
        /\ w.ran.status = 199
        /\ ~w.result.Success
        /\ w.result.Latency = MaxLatency

(***************************************************************************)
(* More properties of testProxies.                                         *)
(***************************************************************************)
\* how often s occurs in the sequence q
Occurrences(q, s) == Cardinality({k \in 1..Len(q) : q[k] = s})

\* the elements of a sequence
Range(q) == {q[k] : k \in 1..Len(q)}

\* the items sent to proxyChan so far
Sent == SubSeq(proxies, 1, next - 1)

\* the outcomes deposited so far, in the order of the deposits
Deposited == results \o resultsChan

\* every string that is somewhere in the run
Strings ==
    Range(proxies) \cup Range(proxyChan) \cup Range(probeLog)
        \cup Range(ProxyFields(Deposited)) \cup {w.proxyStr : w \in {x \in Running : Probing(x)}}

\* C16: each occurrence of a string in the input is taken from proxyChan by
\* one worker and probed once: at every moment each occurrence sent so far
\* is in proxyChan, or held by one worker, or has its one outcome deposited;
\* testProxy has been called once for each occurrence whose outcome exists
\* or is held by a worker; and at the return the calls of testProxy and the
\* Proxy fields of the outcomes are, as multisets, the input.  (For a
\* concurrency of at least 1.)
C16_EachItemProbedOnce ==
    threads >= 1 =>
        /\ \A s \in Strings :
              /\ Occurrences(Sent, s) =
                    Occurrences(proxyChan, s)
                        + NumWorkers({w \in Running : Probing(w) /\ w.proxyStr = s})
                        + Occurrences(ProxyFields(Deposited), s)
              /\ Occurrences(probeLog, s) =
                    NumWorkers({w \in Running : w.pc = "send" /\ w.proxyStr = s})
                        + Occurrences(ProxyFields(Deposited), s)
        /\ \A w \in Running : w.pc = "send" => w.result.Proxy = w.proxyStr
        /\ Len(probeLog) <= N
        /\ Returned =>
              /\ Len(probeLog) = N
              /\ BagOfSeq(probeLog) = BagOfSeq(proxies)
              /\ BagOfSeq(ProxyFields(results)) = BagOfSeq(proxies)

\* testProxies has returned from a run on a list that holds the same string
\* twice, taken by two workers
C16_Witness ==
    /\ pc = "returned"
    /\ N >= 2
    /\ proxies[1] = proxies[2]
    /\ NumWorkers({w \in Running : w.taken = 1}) >= 2
    /\ results[1].Success # results[2].Success

\* C17: the collection testProxies returns is ordered by completion: the
\* outcomes are in resultsChan and then in results in the order in which
\* the workers deposited them, so that an outcome precedes another in the
\* returned collection exactly when it was deposited before it.  (That
\* order need not be the order of the input: see the witness.)
C17_OrderedByCompletion ==
    /\ Deposited = depositLog
    /\ pc \in {"spawn", "seed", "wait", "closeResults"} => results = << >>
    /\ Returned =>
          /\ Len(results) = Len(depositLog)
          /\ \A k \in 1..Len(results) : results[k] = depositLog[k]

\* testProxies has returned from a run of several workers with the outcomes
\* in another order than the input: the second proxy of the list was the
\* first to be done
C17_Witness ==
    /\ pc = "returned"
    /\ threads > 1
    /\ N >= 2
    /\ proxies[1] # proxies[2]
    /\ results[1].Proxy = proxies[2]
    /\ ProxyFields(results) # proxies
    /\ results = depositLog

\* every worker that was started has left its loop
AllWorkersDone == wg = 0 /\ \A w \in Running : Done(w)

\* what holds of the two channels in every state
ChannelDiscipline ==
    /\ pc # "panic"
    /\ proxyClosed => next = N + 1
    /\ next <= N => pc \in {"main", "spawn", "seed"}
    /\ resultsClosed => AllWorkersDone
    /\ results # << >> => resultsClosed /\ AllWorkersDone
    /\ pc \in {"main", "spawn"} => proxyChan = << >> /\ ~proxyClosed

\* a step puts an item into proxyChan: it is the main goroutine's next send,
\* before the close
IsSeed ==
    /\ pc = "seed"
    /\ ~proxyClosed
    /\ proxyChan' = Append(proxyChan, proxies[next])
    /\ next' = next + 1
    /\ workers' = workers

\* a step takes an item from proxyChan: it is a worker's receive of the oldest
IsConsume ==
    /\ proxyChan' = Tail(proxyChan)
    /\ \E w \in Running : w.pc = "recv" /\ workers' = Step(w, [w EXCEPT !.pc = "probe",
                                                                   !.proxyStr = Head(proxyChan),
                                                                   !.taken = w.taken + 1])

\* a step puts an outcome into resultsChan: it is a worker's send, before the
\* close
IsDeposit ==
    /\ ~resultsClosed
    /\ \E w \in Running : w.pc = "send" /\ resultsChan' = Append(resultsChan, w.result)
    /\ results' = results

\* a step takes an outcome from resultsChan: it is the main goroutine's
\* receive, after the join and the close
IsCollect ==
    /\ pc = "collect"
    /\ resultsClosed
    /\ AllWorkersDone
    /\ resultsChan' = Tail(resultsChan)
    /\ results' = Append(results, Head(resultsChan))
    /\ workers' = workers

\* C18: proxyChan has one producer, which acts at the start: the main
\* goroutine sends the N items and closes the channel once, after the last
\* send, and the workers only receive.  resultsChan has one consumer, which
\* acts at the end: the workers only send, and the main goroutine receives
\* no outcome before every worker has finished.  Nothing is sent on a
\* channel that is closed, and a closed channel stays closed.
C18_SingleProducerSingleConsumer ==
    /\ []ChannelDiscipline
    /\ [][/\ Len(proxyChan') > Len(proxyChan) => IsSeed
          /\ Len(proxyChan') < Len(proxyChan) => IsConsume
          /\ Len(resultsChan') > Len(resultsChan) => IsDeposit
          /\ Len(resultsChan') < Len(resultsChan) => IsCollect
          /\ Len(proxyChan') = Len(proxyChan) => proxyChan' = proxyChan
          /\ Len(resultsChan') = Len(resultsChan) => resultsChan' = resultsChan
          /\ results' # results => IsCollect
          /\ proxyClosed => proxyClosed' /\ Len(proxyChan') <= Len(proxyChan)
          /\ resultsClosed => resultsClosed' /\ Len(resultsChan') <= Len(resultsChan)
          /\ proxyClosed' # proxyClosed => pc = "seed" /\ proxyChan' = proxyChan
          /\ resultsClosed' # resultsClosed => pc = "closeResults" /\ resultsChan' = resultsChan
         ]_vars

\* the main goroutine has begun to collect: both channels are closed, an
\* outcome is in results and another is still in resultsChan
C18_Witness ==
    /\ pc = "collect"
    /\ proxyClosed
    /\ resultsClosed
    /\ results # << >>
    /\ resultsChan # << >>
    /\ threads >= 2

\* C19: in every reachable state at most N outcomes are buffered in
\* resultsChan and at most N items in proxyChan, N being the capacity of
\* both; so the main goroutine's next send to proxyChan is possible at once,
\* and so is the send of every worker that holds a result, although nothing
\* is received from resultsChan before the join.
C19_BuffersNeverFull ==
    /\ Len(resultsChan) <= N
    /\ Len(proxyChan) <= N
    /\ Len(proxyChan) <= next - 1
    /\ Len(resultsChan) + InFlight + Len(proxyChan) + Len(results) <= N
    /\ (pc = "seed" /\ next <= N) => Len(proxyChan) < N /\ ENABLED SendProxy
    /\ \A w \in Running :
          w.pc = "send" =>
              /\ Len(resultsChan) < N
              /\ ~resultsClosed
              /\ results = << >>
              /\ ENABLED Deposit(w)

\* every item but one has its outcome in resultsChan, uncollected, and a
\* worker is about to send the last outcome
C19_Witness ==
    /\ N = MaxLines
    /\ Len(resultsChan) = N - 1
    /\ pc = "wait"
    /\ \E w \in Running : w.pc = "send"

\* testProxies has been called and has not returned
InTestProxies == pc \in {"spawn", "seed", "wait", "closeResults", "collect"}

\* C20: when testProxies is called with threads <= 0 no worker is started
\* and nothing is probed; the main goroutine is never blocked (in each of
\* its states inside testProxies its next step is possible); and for a
\* list that is not empty the call returns an empty collection, the items
\* still in proxyChan, and the report shows 0 tested.
C20_NoWorkersNothingTested ==
    threads <= 0 =>
        /\ workers = EmptyBag
        /\ wg = 0
        /\ probeLog = << >>
        /\ depositLog = << >>
        /\ resultsChan = << >>
        /\ results = << >>
        /\ pc # "panic"
        /\ InTestProxies => ENABLED ChannelSteps
        /\ Returned =>
              /\ N >= 1
              /\ Len(results) = 0
              /\ proxyChan = proxies
        /\ report.printed =>
              report = [tested |-> 0, successful |-> 0, failed |-> 0, printed |-> TRUE]

\* the report of a run with -threads -1 on the largest list is printed
C20_Witness ==
    /\ threads < 0
    /\ N = MaxLines
    /\ report.printed
    /\ report.tested = 0
    /\ proxyChan = proxies

====
